---- MODULE Spec2Model ----
(***************************************************************************)
(* Model of mitmproxy/proxy/mode_specs.py: the proxy mode spec parser      *)
(* (ProxyMode.parse behind functools.cache), the per-mode validators       *)
(* (__post_init__), the listen address accessors and the state codec.      *)
(*                                                                         *)
(* Strings are sequences of tokens.  The two delimiters the parser splits  *)
(* on, "@" and ":", are always tokens of their own; every other token is   *)
(* an atom that contains neither delimiter, and no two atoms are adjacent. *)
(* Under that normal form a token sequence denotes exactly one Python      *)
(* string, "" is <<>>, and str.partition / str.rpartition on a delimiter   *)
(* act on tokens exactly as they act on characters.                        *)
(*                                                                         *)
(* An optional value (Python's None) is a sequence of length 0 or 1:       *)
(* None is <<>>, a present value v is <<v>>.  So the empty string given as *)
(* a host is << <<>> >>, which is not None.                                *)
(***************************************************************************)
EXTENDS Integers, Sequences, FiniteSets, TLC

AT == "@"
COLON == ":"

None == <<>>
Some(v) == <<v>>
IsNone(o) == o = <<>>
Val(o) == o[1]

(* ---------------------------------------------------------------------- *)
(* Python string primitives on token sequences                            *)
(* ---------------------------------------------------------------------- *)

\* sep in s
Contains(s, sep) == \E i \in 1..Len(s) : s[i] = sep

FirstIndex(s, sep) == CHOOSE i \in 1..Len(s) : s[i] = sep /\ \A j \in 1..(i-1) : s[j] # sep
LastIndex(s, sep) == CHOOSE i \in 1..Len(s) : s[i] = sep /\ \A j \in (i+1)..Len(s) : s[j] # sep

\* str.partition(sep): split at the first sep; (s, "", "") when sep is absent
partition(s, sep) ==
    IF Contains(s, sep)
    THEN LET i == FirstIndex(s, sep)
         IN  <<SubSeq(s, 1, i - 1), <<sep>>, SubSeq(s, i + 1, Len(s))>>
    ELSE <<s, <<>>, <<>>>>

\* str.rpartition(sep): split at the last sep; ("", "", s) when sep is absent
rpartition(s, sep) ==
    IF Contains(s, sep)
    THEN LET i == LastIndex(s, sep)
         IN  <<SubSeq(s, 1, i - 1), <<sep>>, SubSeq(s, i + 1, Len(s))>>
    ELSE <<<<>>, <<>>, s>>

\* str.lower() on the atoms the model uses: only these have upper case letters
LowerAtom(a) ==
    CASE a = "Regular" -> "regular"
      [] a = "DNS" -> "dns"
      [] OTHER -> a

lower(s) == [i \in 1..Len(s) |-> LowerAtom(s[i])]

\* The atoms int() accepts, with their values; int() raises ValueError on
\* every other atom, on "" and on any text holding a delimiter.
IntAtoms ==
    ("0" :> 0) @@ ("53" :> 53) @@ ("80" :> 80) @@ ("1234" :> 1234) @@
    ("8080" :> 8080) @@ ("9000" :> 9000) @@ ("65535" :> 65535) @@
    ("65536" :> 65536) @@ ("70000" :> 70000) @@ ("-1" :> (0 - 1))

\* int(s): [ok |-> FALSE] stands for ValueError
int(s) ==
    IF Len(s) = 1 /\ s[1] \in DOMAIN IntAtoms
    THEN [ok |-> TRUE, val |-> IntAtoms[s[1]]]
    ELSE [ok |-> FALSE, val |-> 0]

(* ---------------------------------------------------------------------- *)
(* The class hierarchy and the registry ProxyMode.__types                 *)
(* ---------------------------------------------------------------------- *)

ModeClasses ==
    {"RegularMode", "TransparentMode", "UpstreamMode", "ReverseMode",
     "Socks5Mode", "DnsMode", "DtlsMode"}

Classes == {"ProxyMode"} \cup ModeClasses

\* cls.type of __init_subclass__: cls.__name__.removesuffix("Mode").lower()
TypeName(c) ==
    CASE c = "RegularMode" -> "regular"
      [] c = "TransparentMode" -> "transparent"
      [] c = "UpstreamMode" -> "upstream"
      [] c = "ReverseMode" -> "reverse"
      [] c = "Socks5Mode" -> "socks5"
      [] c = "DnsMode" -> "dns"
      [] c = "DtlsMode" -> "dtls"

\* ProxyMode.__types once the module is imported: one entry per subclass,
\* keyed by its type name (a one-atom string).
Types == [k \in {<<TypeName(c)>> : c \in ModeClasses} |->
              CHOOSE c \in ModeClasses : <<TypeName(c)>> = k]

\* issubclass(sub, sup): every mode class derives from ProxyMode directly
issubclass(sub, sup) == sup = "ProxyMode" \/ sup = sub

\* default_port: 8080 on ProxyMode, overridden by Socks5Mode, DnsMode, DtlsMode
default_port(c) ==
    CASE c = "Socks5Mode" -> 1080
      [] c = "DnsMode" -> 53
      [] c = "DtlsMode" -> 8084
      [] OTHER -> 8080

(* ---------------------------------------------------------------------- *)
(* mitmproxy.net.server_spec.parse, the address-spec resolver.  Its code   *)
(* is not part of the sources at hand; it is modelled from section 6 of    *)
(* the specification: [scheme://]host[:port], the caller's default scheme  *)
(* when none is written, failure on an ill-formed text or a port out of    *)
(* range.                                                                  *)
(* ---------------------------------------------------------------------- *)

\* atoms that start with "//", and what follows the slashes
SlashAtoms == ("//h" :> "h") @@ ("//user" :> "user")

ResolverDefaultPort(scheme) ==
    CASE scheme = "http" -> 80
      [] scheme = "dns" -> 53
      [] OTHER -> 443

server_spec_parse(raw, default_scheme) ==
    LET hasScheme == /\ Len(raw) >= 3
                     /\ raw[1] \notin {AT, COLON}
                     /\ raw[2] = COLON
                     /\ raw[3] \in DOMAIN SlashAtoms
        scheme == IF hasScheme THEN raw[1] ELSE default_scheme
        rest == IF hasScheme
                THEN <<SlashAtoms[raw[3]]>> \o SubSeq(raw, 4, Len(raw))
                ELSE raw
        hp == rpartition(rest, COLON)
        host == IF Contains(rest, COLON) THEN hp[1] ELSE rest
        p == int(hp[3])
        port == IF Contains(rest, COLON) THEN p.val ELSE ResolverDefaultPort(scheme)
        good == /\ host # <<>>
                /\ ~Contains(host, COLON)
                /\ Contains(rest, COLON) => (p.ok /\ 0 <= p.val /\ p.val <= 65535)
    IN  IF good
        THEN [ok |-> TRUE, scheme |-> scheme, address |-> [host |-> host, port |-> port]]
        ELSE [ok |-> FALSE, scheme |-> "", address |-> [host |-> <<>>, port |-> 0]]

(* ---------------------------------------------------------------------- *)
(* Validators: __post_init__ of each mode class                           *)
(* ---------------------------------------------------------------------- *)

Valid(scheme, address) == [ok |-> TRUE, err |-> "", scheme |-> scheme, address |-> address]
Invalid(err) == [ok |-> FALSE, err |-> err, scheme |-> None, address |-> None]

\* _check_empty(data), as used by RegularMode, TransparentMode, Socks5Mode
check_empty(data) ==
    IF data # <<>> THEN Invalid("mode takes no arguments") ELSE Valid(None, None)

UpstreamMode_post_init(data) ==
    LET r == server_spec_parse(data, "http")
    IN  IF ~r.ok THEN Invalid("invalid server specification")
        ELSE IF r.scheme # "http" /\ r.scheme # "https"
        THEN Invalid("invalid upstream proxy scheme")
        ELSE Valid(Some(r.scheme), Some(r.address))

ReverseMode_post_init(data) ==
    LET r == server_spec_parse(data, "https")
    IN  IF ~r.ok THEN Invalid("invalid server specification")
        ELSE IF r.scheme # "http" /\ r.scheme # "https" /\ r.scheme # "tcp" /\ r.scheme # "tls"
        THEN Invalid("invalid reverse proxy scheme")
        ELSE Valid(Some(r.scheme), Some(r.address))

DnsMode_post_init(data) ==
    IF data \in {<<>>, <<"resolve-local">>, <<"transparent">>}
    THEN Valid(None, None)
    ELSE LET parts == partition(data, COLON)
             m == parts[1]
             server == parts[3]
             r == server_spec_parse(server, "dns")
         IN  IF m # <<"reverse">> THEN Invalid("invalid dns mode")
             ELSE IF ~r.ok THEN Invalid("invalid server specification")
             ELSE IF r.scheme # "dns" THEN Invalid("invalid dns scheme")
             ELSE Valid(Some(r.scheme), Some(r.address))

DtlsMode_post_init(data) ==
    LET parts == partition(data, COLON)
        m == parts[1]
        server == parts[3]
        r == server_spec_parse(server, "dtls")
    IN  IF m # <<"reverse">> THEN Invalid("invalid dtls mode")
        ELSE IF ~r.ok THEN Invalid("invalid server specification")
        ELSE IF r.scheme # "dtls" THEN Invalid("invalid dtls scheme")
        ELSE Valid(Some(r.scheme), Some(r.address))

\* __post_init__ of class c on its data
post_init(c, data) ==
    CASE c \in {"RegularMode", "TransparentMode", "Socks5Mode"} -> check_empty(data)
      [] c = "UpstreamMode" -> UpstreamMode_post_init(data)
      [] c = "ReverseMode" -> ReverseMode_post_init(data)
      [] c = "DnsMode" -> DnsMode_post_init(data)
      [] c = "DtlsMode" -> DtlsMode_post_init(data)

\* DnsMode.resolve_local
resolve_local(inst) == inst.data \in {<<>>, <<"resolve-local">>}

(* ---------------------------------------------------------------------- *)
(* ProxyMode.parse: the function body, without the cache around it        *)
(* ---------------------------------------------------------------------- *)

NoInstance ==
    [cls |-> "", full_spec |-> <<>>, data |-> <<>>, custom_listen_host |-> None,
     custom_listen_port |-> None, scheme |-> None, address |-> None]

\* raise ValueError(err); validated says whether __post_init__ had been entered
Raise(err, validated) ==
    [ok |-> FALSE, err |-> err, validated |-> validated, inst |-> NoInstance]

\* head, listen_at after the rpartition on "@" and the "if not head" swap
SplitListen(spec) ==
    LET p == rpartition(spec, AT)
    IN  IF p[1] = <<>>
        THEN [head |-> p[3], listen_at |-> <<>>]
        ELSE [head |-> p[1], listen_at |-> p[3]]

\* host, port_str of a non-empty listen_at
SplitHostPort(listen_at) ==
    IF Contains(listen_at, COLON)
    THEN LET p == rpartition(listen_at, COLON)
         IN  [host |-> Some(p[1]), port_str |-> p[3]]
    ELSE [host |-> None, port_str |-> listen_at]

\* the try block around int(port_str) and the range test
PortOk(port_str) ==
    LET p == int(port_str)
    IN  p.ok /\ ~(p.val < 0 \/ 65535 < p.val)

\* mode_cls(full_spec=..., data=..., custom_listen_host=..., custom_listen_port=...):
\* the dataclass __init__ sets the four fields, then runs __post_init__
Construct(mode_cls, spec, data, host, port) ==
    LET v == post_init(mode_cls, data)
    IN  IF ~v.ok THEN Raise(v.err, TRUE)
        ELSE [ok |-> TRUE, err |-> "", validated |-> TRUE,
              inst |-> [cls |-> mode_cls, full_spec |-> spec, data |-> data,
                        custom_listen_host |-> host, custom_listen_port |-> port,
                        scheme |-> v.scheme, address |-> v.address]]

\* parse with the instance constructed, and so validated, before the test of
\* the class: what parse would be with lines 111-112 after line 114
parse_body_validating_first(cls, spec) ==
    LET hl == SplitListen(spec)
        md == partition(hl.head, COLON)
        mode == md[1]
        hp == SplitHostPort(hl.listen_at)
        host == IF hl.listen_at # <<>> THEN hp.host ELSE None
        port == IF hl.listen_at # <<>> THEN Some(int(hp.port_str).val) ELSE None
        made == Construct(Types[lower(mode)], spec, md[3], host, port)
    IN  IF hl.listen_at # <<>> /\ ~PortOk(hp.port_str)
        THEN Raise("invalid port", FALSE)
        ELSE IF lower(mode) \notin DOMAIN Types
        THEN Raise("unknown mode", FALSE)
        ELSE IF ~made.ok
        THEN made
        ELSE IF ~issubclass(Types[lower(mode)], cls)
        THEN Raise("is not a spec for a mode", TRUE)
        ELSE made

parse_body(cls, spec) ==
    LET hl == SplitListen(spec)
        head == hl.head
        listen_at == hl.listen_at
        md == partition(head, COLON)
        mode == md[1]
        data == md[3]
        hp == SplitHostPort(listen_at)
        host == IF listen_at # <<>> THEN hp.host ELSE None
        port == IF listen_at # <<>> THEN Some(int(hp.port_str).val) ELSE None
    IN  IF listen_at # <<>> /\ ~PortOk(hp.port_str)
        THEN Raise("invalid port", FALSE)
        ELSE IF lower(mode) \notin DOMAIN Types
        THEN Raise("unknown mode", FALSE)
        ELSE IF ~issubclass(Types[lower(mode)], cls)
        THEN Raise("is not a spec for a mode", FALSE)
        ELSE Construct(Types[lower(mode)], spec, data, host, port)

(* ---------------------------------------------------------------------- *)
(* Accessors and the state codec, as functions of an instance             *)
(* ---------------------------------------------------------------------- *)

\* ProxyMode.listen_host(self, default=None)
listen_host(inst, default) ==
    IF ~IsNone(inst.custom_listen_host) THEN Val(inst.custom_listen_host)
    ELSE IF ~IsNone(default) THEN Val(default)
    ELSE <<>>

\* listen_port testing the port for truth instead of "is not None"
listen_port_by_truth(inst, default) ==
    IF ~IsNone(inst.custom_listen_port) /\ Val(inst.custom_listen_port) # 0
    THEN Val(inst.custom_listen_port)
    ELSE IF ~IsNone(default) /\ Val(default) # 0 THEN Val(default)
    ELSE default_port(inst.cls)

\* ProxyMode.listen_port(self, default=None)
listen_port(inst, default) ==
    IF ~IsNone(inst.custom_listen_port) THEN Val(inst.custom_listen_port)
    ELSE IF ~IsNone(default) THEN Val(default)
    ELSE default_port(inst.cls)

\* get_state giving the spec with its letters folded to lower case
get_state_case_folded(inst) == lower(inst.full_spec)

\* ProxyMode.get_state(self)
get_state(inst) == inst.full_spec

\* ProxyMode.set_state(self, state): TRUE when it raises RuntimeError
set_state_raises(inst, state) == state # inst.full_spec

\* The fields of the dataclass: the annotated attributes of ProxyMode that are
\* not ClassVar.  The mode classes are not decorated, so scheme and address,
\* which they annotate, are plain attributes and no fields.
DataclassFields == {"full_spec", "data", "custom_listen_host", "custom_listen_port"}

\* The attributes a caller of the model assigns to
Attributes == DataclassFields \cup {"scheme", "address"}

\* __setattr__ as dataclass(frozen=True) generates it on ProxyMode: it raises
\* FrozenInstanceError when type(self) is ProxyMode or the name is a field,
\* and is object.__setattr__ otherwise.
setattr_raises(inst, name) == inst.cls = "ProxyMode" \/ name \in DataclassFields

\* __eq__ as dataclass generates it: same class and equal tuples of fields
dataclass_eq(a, b) ==
    /\ a.cls = b.cls
    /\ <<a.full_spec, a.data, a.custom_listen_host, a.custom_listen_port>>
         = <<b.full_spec, b.data, b.custom_listen_host, b.custom_listen_port>>

(* ---------------------------------------------------------------------- *)
(* Spec strings the callers parse                                         *)
(* ---------------------------------------------------------------------- *)

\* mode [":" data] ["@" listen_at]
Join(mode, data, listen_at) ==
    mode \o (IF IsNone(data) THEN <<>> ELSE <<COLON>> \o Val(data))
         \o (IF IsNone(listen_at) THEN <<>> ELSE <<AT>> \o Val(listen_at))

ModeNames ==
    {<<>>, <<"regular">>, <<"Regular">>, <<"transparent">>, <<"upstream">>,
     <<"reverse">>, <<"socks5">>, <<"dns">>, <<"dtls">>, <<"bogus">>}

PlainData == {None, Some(<<>>), Some(<<"x">>)}

AddressData ==
    {Some(<<"http", COLON, "//h", COLON, "8080">>),
     Some(<<"https", COLON, "//h">>),
     Some(<<"tcp", COLON, "//h", COLON, "80">>),
     Some(<<"ftp", COLON, "//h", COLON, "80">>),
     Some(<<"h", COLON, "80">>),
     Some(<<"h", COLON, "x">>),
     Some(<<"http", COLON, "//user", AT, "h", COLON, "8080">>)}

DnsData ==
    {Some(<<"resolve-local">>), Some(<<"transparent">>), Some(<<"reverse">>),
     Some(<<"reverse", COLON, "h">>),
     Some(<<"reverse", COLON, "dns", COLON, "//h", COLON, "53">>),
     Some(<<"reverse", COLON, "dtls", COLON, "//h">>),
     Some(<<"reverse", COLON, "http", COLON, "//h">>)}

PortListens ==
    {None, Some(<<>>), Some(<<"0">>), Some(<<"1234">>), Some(<<"65535">>),
     Some(<<"65536">>), Some(<<"-1">>), Some(<<"x">>)}

HostListens ==
    {Some(<<COLON, "1234">>), Some(<<"127.0.0.1", COLON, "9000">>),
     Some(<<"h", COLON>>), Some(<<"a", COLON, "b", COLON, "80">>),
     Some(<<"regular">>), Some(<<"upstream", COLON, "80">>)}

\* The strings a behaviour may be about
Specs ==
    {Join(m, d, l) : m \in ModeNames, d \in PlainData, l \in PortListens \cup HostListens}
    \cup {Join(m, d, l) : m \in {<<"upstream">>, <<"reverse">>, <<"regular">>},
                          d \in AddressData,
                          l \in {None, Some(<<"127.0.0.1", COLON, "9000">>)}}
    \cup {Join(m, d, l) : m \in {<<"dns">>, <<"dtls">>, <<"reverse">>},
                          d \in DnsData,
                          l \in {None, Some(<<"1234">>)}}

\* The strings the behaviours with every operation are about: each mode, with
\* and without a listen address, and strings that parse rejects
Subjects ==
    {<<"regular">>,
     <<"Regular", AT, "1234">>,
     <<"regular", AT, "0">>,
     <<"regular", AT, COLON, "1234">>,
     <<AT, "regular">>,
     <<"transparent", AT, "65535">>,
     <<"socks5">>,
     <<"upstream", COLON, "http", COLON, "//user", AT, "h", COLON, "8080",
       AT, "127.0.0.1", COLON, "9000">>,
     <<"upstream", COLON, "h", COLON, "80">>,
     <<"reverse", COLON, "https", COLON, "//h">>,
     <<"dns">>,
     <<"dns", COLON, "reverse", COLON, "dns", COLON, "//h", COLON, "53", AT, "1234">>,
     <<"dtls", COLON, "reverse", COLON, "dtls", COLON, "//h">>,
     <<>>,
     <<"bogus">>,
     <<"regular", COLON, "x">>,
     <<"regular", AT, "65536">>,
     <<"regular", AT, "h", COLON>>,
     <<"upstream", COLON, "ftp", COLON, "//h", COLON, "80">>,
     <<"dns", COLON, "x">>,
     <<"dtls">>}

(* ---------------------------------------------------------------------- *)
(* State                                                                  *)
(* ---------------------------------------------------------------------- *)

\* How many threads may be inside parse at once
MaxCallers == 2

\* The threads that call parse
Callers == 1..MaxCallers

VARIABLES
    subject,   \* the spec string this behaviour is about
    cache,     \* the dict of functools.cache around parse: <<cls, spec>> -> instance
    heap,      \* the instances constructed so far; an instance's identity is its index
    th,        \* per caller: where it is inside a call of the cached parse
    returned,  \* history: [cls, spec, inst] for every instance a parse call has returned
    last       \* the last operation that completed, with its arguments and result

vars == <<subject, cache, heap, th, returned, last>>

Idle == [pc |-> "idle", cls |-> "", spec |-> <<>>, via |-> "", origin |-> 0, inst |-> 0]

Op(op, cls, spec, ok, err, validated, hit, inst, origin, arg, out) ==
    [op |-> op, cls |-> cls, spec |-> spec, ok |-> ok, err |-> err,
     validated |-> validated, hit |-> hit, inst |-> inst, origin |-> origin,
     arg |-> arg, out |-> out]

NoOp == Op("none", "", <<>>, TRUE, "", FALSE, FALSE, 0, 0, None, None)

\* The instances some caller holds a reference to
Held == {r.inst : r \in returned}

InitOn(S) ==
    /\ subject \in S
    /\ cache = <<>>
    /\ heap = <<>>
    /\ th = [t \in Callers |-> Idle]
    /\ returned = {}
    /\ last = NoOp

Init == InitOn(Subjects)

(* ---------------------------------------------------------------------- *)
(* The cached parse, in the steps another thread can come between:        *)
(* the wrapper's lookup, the call of the function, the wrapper's store    *)
(* ---------------------------------------------------------------------- *)

\* functools.cache looks <<cls, spec>> up: a hit returns the cached instance,
\* a miss goes on to call the function.  The key holds cls because the cache
\* is applied under classmethod.  A call that has begun has no result yet.
Lookup(t, cls, spec, via, origin) ==
    /\ th[t].pc = "idle"
    /\ IF <<cls, spec>> \in DOMAIN cache
       THEN /\ last' = Op(via, cls, spec, TRUE, "", FALSE, TRUE,
                          cache[<<cls, spec>>], origin, None, None)
            /\ returned' = returned \cup {[cls |-> cls, spec |-> spec,
                                                inst |-> cache[<<cls, spec>>]]}
            /\ UNCHANGED th
       ELSE /\ th' = [th EXCEPT ![t] = [pc |-> "body", cls |-> cls, spec |-> spec,
                                        via |-> via, origin |-> origin, inst |-> 0]]
            /\ last' = NoOp
            /\ UNCHANGED returned
    /\ UNCHANGED <<subject, cache, heap>>

\* cls.parse(subject), for ProxyMode and for every mode class
Parse(t, cls) == Lookup(t, cls, subject, "parse", 0)

\* ProxyMode.from_state(state), with the state string a get_state call gave
FromState(t) ==
    /\ last.op = "get_state"
    /\ Lookup(t, "ProxyMode", Val(last.out), "from_state", last.inst)

\* The function body runs: it raises (an exception is not cached), or it
\* constructs an instance
Body(t) ==
    /\ th[t].pc = "body"
    /\ LET r == parse_body(th[t].cls, th[t].spec)
       IN  IF r.ok
           THEN /\ heap' = Append(heap, r.inst)
                /\ th' = [th EXCEPT ![t].pc = "store", ![t].inst = Len(heap) + 1]
                /\ UNCHANGED last
           ELSE /\ last' = Op(th[t].via, th[t].cls, th[t].spec, FALSE, r.err,
                              r.validated, FALSE, 0, th[t].origin, None, None)
                /\ th' = [th EXCEPT ![t] = Idle]
                /\ UNCHANGED heap
    /\ UNCHANGED <<subject, cache, returned>>

\* The wrapper stores the result under the key, over whatever another caller
\* stored there meanwhile, and returns it
Store(t) ==
    /\ th[t].pc = "store"
    /\ cache' = (<<th[t].cls, th[t].spec>> :> th[t].inst) @@ cache
    /\ last' = Op(th[t].via, th[t].cls, th[t].spec, TRUE, "", TRUE, FALSE,
                  th[t].inst, th[t].origin, None, None)
    /\ returned' = returned \cup {[cls |-> th[t].cls, spec |-> th[t].spec,
                                        inst |-> th[t].inst]}
    /\ th' = [th EXCEPT ![t] = Idle]
    /\ UNCHANGED <<subject, heap>>

(* ---------------------------------------------------------------------- *)
(* Operations of a caller on an instance it holds                         *)
(* ---------------------------------------------------------------------- *)

HostDefaults == {None, Some(<<>>), Some(<<"d">>)}
PortDefaults == {None, Some(0), Some(8081)}

ListenHost(i, d) ==
    /\ i \in Held
    /\ last' = Op("listen_host", "", <<>>, TRUE, "", FALSE, FALSE, i, 0,
                  d, Some(listen_host(heap[i], d)))
    /\ UNCHANGED <<subject, cache, heap, th, returned>>

ListenPort(i, d) ==
    /\ i \in Held
    /\ last' = Op("listen_port", "", <<>>, TRUE, "", FALSE, FALSE, i, 0,
                  d, Some(listen_port(heap[i], d)))
    /\ UNCHANGED <<subject, cache, heap, th, returned>>

GetState(i) ==
    /\ i \in Held
    /\ last' = Op("get_state", "", <<>>, TRUE, "", FALSE, FALSE, i, 0,
                  None, Some(get_state(heap[i])))
    /\ UNCHANGED <<subject, cache, heap, th, returned>>

\* the states a caller hands to set_state: the instance's own, and others
States(i) == {heap[i].full_spec, <<>>, <<"regular">>, heap[i].full_spec \o <<AT, "1234">>}

SetState(i, state) ==
    /\ i \in Held
    /\ last' = Op("set_state", "", <<>>, ~set_state_raises(heap[i], state),
                  IF set_state_raises(heap[i], state) THEN "Proxy modes are frozen." ELSE "",
                  FALSE, FALSE, i, 0, Some(state), None)
    /\ UNCHANGED <<subject, cache, heap, th, returned>>

\* what a caller tries to assign to each attribute
Assigned(name) ==
    CASE name = "full_spec" -> <<"socks5">>
      [] name = "data" -> <<"x">>
      [] name = "custom_listen_host" -> Some(<<"0.0.0.0">>)
      [] name = "custom_listen_port" -> Some(1)
      [] name = "scheme" -> Some("ftp")
      [] name = "address" -> Some([host |-> <<"elsewhere">>, port |-> 1])

\* inst.name = value
SetAttr(i, name) ==
    /\ i \in Held
    /\ IF setattr_raises(heap[i], name)
       THEN /\ last' = Op("setattr", "", <<>>, FALSE, "cannot assign to field",
                          FALSE, FALSE, i, 0, Some(name), None)
            /\ UNCHANGED heap
       ELSE /\ last' = Op("setattr", "", <<>>, TRUE, "", FALSE, FALSE, i, 0,
                          Some(name), None)
            /\ heap' = [heap EXCEPT ![i] = [heap[i] EXCEPT ![name] = Assigned(name)]]
    /\ UNCHANGED <<subject, cache, th, returned>>

\* One caller: every operation, in any order.  The operations on an instance
\* run no code another thread could come between, so each is one step.
Next ==
    \/ \E cls \in Classes : Parse(1, cls)
    \/ FromState(1)
    \/ Body(1)
    \/ Store(1)
    \/ \E i \in 1..Len(heap), d \in HostDefaults : ListenHost(i, d)
    \/ \E i \in 1..Len(heap), d \in PortDefaults : ListenPort(i, d)
    \/ \E i \in 1..Len(heap) : GetState(i)
    \/ \E i \in 1..Len(heap) : \E state \in States(i) : SetState(i, state)
    \/ \E i \in 1..Len(heap), name \in Attributes : SetAttr(i, name)

Spec == Init /\ [][Next]_vars

\* One caller that only parses, over every string of Specs
ParseNext ==
    \/ \E cls \in Classes : Parse(1, cls)
    \/ Body(1)
    \/ Store(1)

ParseSpec == InitOn(Specs \cup Subjects) /\ [][ParseNext]_vars

\* Several callers inside parse at once
ConcNext ==
    \/ \E t \in Callers, cls \in Classes : Parse(t, cls)
    \/ \E t \in Callers : Body(t)
    \/ \E t \in Callers : Store(t)

ConcSpec == Init /\ [][ConcNext]_vars

(* ====================================================================== *)
(* Properties                                                             *)
(* ====================================================================== *)

\* The error kinds of the specification, by the message the code raises
InvalidPort == "invalid port"
UnknownMode == "unknown mode"
WrongModeCategory == "is not a spec for a mode"
UnexpectedArguments == "mode takes no arguments"
InvalidScheme == {"invalid upstream proxy scheme", "invalid reverse proxy scheme"}
InvalidDnsMode == "invalid dns mode"
InvalidDtlsMode == "invalid dtls mode"

\* a parse call, through parse itself or through from_state, has just returned
ParseReturned == last.op \in {"parse", "from_state"}

\* text is an integer in [0, 65535]
IsPort(text) == int(text).ok /\ 0 <= int(text).val /\ int(text).val <= 65535

\* the text after the last "@" of a string that has one
AfterLastAt(s) == rpartition(s, AT)[3]

\* the text before the last "@", the whole string when it has none
BeforeLastAt(s) == IF Contains(s, AT) THEN rpartition(s, AT)[1] ELSE s

\* the port part of a listen address: after its last ":", all of it without one
PortPart(l) == IF Contains(l, COLON) THEN rpartition(l, COLON)[3] ELSE l

IsSubstring(a, b) ==
    \E i \in 0..(Len(b) - Len(a)) : SubSeq(b, i + 1, i + Len(a)) = a

(* C1: every parse call on a string, through whichever entry point, returns *)
(* the same instance, and only one instance is ever constructed for the     *)
(* string.                                                                  *)
C1_OneInstancePerString ==
    /\ \A r1 \in returned, r2 \in returned : r1.spec = r2.spec => r1.inst = r2.inst
    /\ \A i \in 1..Len(heap), j \in 1..Len(heap) :
           heap[i].full_spec = heap[j].full_spec => i = j

(* C2: callers that run the same parse on the same string at once all get   *)
(* the same instance, and the cache never holds another instance than the   *)
(* one a caller was given.                                                  *)
C2_RaceLeavesOneInstance ==
    /\ \A r1 \in returned, r2 \in returned :
           (r1.cls = r2.cls /\ r1.spec = r2.spec) => r1.inst = r2.inst
    /\ \A r \in returned :
           <<r.cls, r.spec>> \in DOMAIN cache => cache[<<r.cls, r.spec>>] = r.inst

(* C3: for a string with an "@", the listen address is the text after the   *)
(* last "@" whatever precedes it; a non-empty listen address whose port     *)
(* part is no integer in [0, 65535] makes parse fail with InvalidPort; a    *)
(* returned instance has its port unset or in [0, 65535].                   *)
C3_LastAtSplitsListenAddress ==
    (last.op = "parse" /\ Contains(last.spec, AT)) =>
        LET l == AfterLastAt(last.spec)
        IN  /\ (l # <<>> /\ ~IsPort(PortPart(l))) =>
                   (~last.ok /\ last.err = InvalidPort)
            /\ last.ok =>
                   LET port == heap[last.inst].custom_listen_port
                   IN  /\ port = (IF l = <<>> THEN None ELSE Some(int(PortPart(l)).val))
                       /\ IsNone(port) \/ (0 <= Val(port) /\ Val(port) <= 65535)

(* C4: get_state gives back exactly the string the instance was parsed      *)
(* from, and from_state of it succeeds with an instance equal to the one    *)
(* the state was taken from, whichever parser had produced that one.        *)
C4_RoundTrip ==
    /\ last.op = "get_state" =>
           \A r \in returned : r.inst = last.inst => Val(last.out) = r.spec
    /\ last.op = "from_state" =>
           (last.ok /\ dataclass_eq(heap[last.origin], heap[last.inst]))

\* from_state gave another object than the one the state came from, for a
\* string whose mode name is not in lower case
C4_Witness ==
    /\ last.op = "from_state"
    /\ last.ok
    /\ last.origin # last.inst
    /\ last.spec = <<"Regular", AT, "1234">>

FallbackPort(c) ==
    CASE c \in {"RegularMode", "TransparentMode", "UpstreamMode", "ReverseMode"} -> 8080
      [] c = "Socks5Mode" -> 1080
      [] c = "DnsMode" -> 53
      [] c = "DtlsMode" -> 8084

C6_Layering ==
    /\ last.op = "listen_port" =>
           LET inst == heap[last.inst]
           IN  Val(last.out) =
                   IF ~IsNone(inst.custom_listen_port) THEN Val(inst.custom_listen_port)
                   ELSE IF ~IsNone(last.arg) THEN Val(last.arg)
                   ELSE FallbackPort(inst.cls)
    /\ last.op = "listen_host" =>
           LET inst == heap[last.inst]
           IN  Val(last.out) =
                   IF ~IsNone(inst.custom_listen_host) THEN Val(inst.custom_listen_host)
                   ELSE IF ~IsNone(last.arg) THEN Val(last.arg)
                   ELSE <<>>

C6_Frame ==
    (last' # last /\ last'.op \in {"listen_host", "listen_port"}) =>
        (heap' = heap /\ cache' = cache)

(* C6: listen_port and listen_host return the explicit value when the       *)
(* instance has one, else the caller's default when one is given, else the  *)
(* mode's fallback port or the empty host; neither changes an instance or   *)
(* the cache.                                                               *)
C6_ListenAddressLayers == [](C6_Layering) /\ [][C6_Frame]_vars

\* listen_port with a default given, on an instance whose explicit port is 0
C6_Witness ==
    /\ last.op = "listen_port"
    /\ ~IsNone(last.arg)
    /\ Val(last.arg) # 0
    /\ heap[last.inst].custom_listen_port = Some(0)
    /\ Val(last.out) = 0

(* C7: when the listen address has a ":" with nothing before its last ":",  *)
(* the host is unset and listen_host(d) returns d for every given d.        *)
C7_EmptyHostIsUnset ==
    last.op = "listen_host" =>
        LET inst == heap[last.inst]
            l == AfterLastAt(inst.full_spec)
        IN  (/\ Contains(inst.full_spec, AT)
             /\ Contains(l, COLON)
             /\ rpartition(l, COLON)[1] = <<>>
             /\ ~IsNone(last.arg)) =>
                (IsNone(inst.custom_listen_host) /\ Val(last.out) = Val(last.arg))

C8_SetState ==
    last.op = "set_state" =>
        (~last.ok <=> Val(last.arg) # heap[last.inst].full_spec)

C8_FieldsKept == \A i \in Held : heap'[i] = heap[i]

(* C8: no operation changes a field, scheme and address included, of an     *)
(* instance parse has returned; set_state fails exactly when the state      *)
(* differs from the instance's full_spec.                                   *)
C8_Immutable == [](C8_SetState) /\ [][C8_FieldsKept]_vars

\* the example of the delimiter precedence
C9_Example ==
    <<"upstream", COLON, "http", COLON, "//user", AT, "h", COLON, "8080",
      AT, "127.0.0.1", COLON, "9000">>

(* C9: for every string parse accepts, the mode name is the text before the *)
(* first ":" of head and data the text after it, head being the text before *)
(* the last "@"; data is a substring of full_spec; the example parses to    *)
(* its data, listen host and listen port.                                   *)
C9_DelimiterPrecedence ==
    /\ (last.op = "parse" /\ last.ok) =>
           LET inst == heap[last.inst]
               head == BeforeLastAt(last.spec)
               name == lower(partition(head, COLON)[1])
           IN  /\ name \in DOMAIN Types
               /\ inst.cls = Types[name]
               /\ inst.data = partition(head, COLON)[3]
               /\ IsSubstring(inst.data, inst.full_spec)
    /\ (last.op = "parse" /\ last.cls = "ProxyMode" /\ last.spec = C9_Example) =>
           /\ last.ok
           /\ heap[last.inst].data = <<"http", COLON, "//user", AT, "h", COLON, "8080">>
           /\ heap[last.inst].custom_listen_host = Some(<<"127.0.0.1">>)
           /\ heap[last.inst].custom_listen_port = Some(9000)

\* the data grammar of each mode, on an instance
C10_Grammar(inst) ==
    LET lead == partition(inst.data, COLON)[1]
    IN  CASE inst.cls \in {"RegularMode", "TransparentMode", "Socks5Mode"} ->
                 inst.data = <<>>
          [] inst.cls = "UpstreamMode" ->
                 inst.scheme \in {Some("http"), Some("https")}
          [] inst.cls = "ReverseMode" ->
                 inst.scheme \in {Some("http"), Some("https"), Some("tcp"), Some("tls")}
          [] inst.cls = "DnsMode" ->
                 /\ \/ inst.data \in {<<>>, <<"resolve-local">>, <<"transparent">>}
                    \/ (lead = <<"reverse">> /\ Contains(inst.data, COLON)
                        /\ inst.scheme = Some("dns"))
                 /\ resolve_local(inst) <=> inst.data \in {<<>>, <<"resolve-local">>}
          [] inst.cls = "DtlsMode" ->
                 /\ lead = <<"reverse">>
                 /\ Contains(inst.data, COLON)
                 /\ inst.scheme = Some("dtls")

\* the error of a call whose validator rejected the data
C10_Rejection(spec, err) ==
    LET head == SplitListen(spec).head
        c == Types[lower(partition(head, COLON)[1])]
        data == partition(head, COLON)[3]
        lead == partition(data, COLON)[1]
    IN  /\ c \in {"RegularMode", "TransparentMode", "Socks5Mode"} =>
               err = UnexpectedArguments
        /\ (c = "UpstreamMode" /\ server_spec_parse(data, "http").ok) =>
               err \in InvalidScheme
        /\ (c = "ReverseMode" /\ server_spec_parse(data, "https").ok) =>
               err \in InvalidScheme
        /\ (c = "DnsMode" /\ lead # <<"reverse">>) => err = InvalidDnsMode
        /\ (c = "DtlsMode" /\ lead # <<"reverse">>) => err = InvalidDtlsMode

(* C10: every instance parse returns satisfies the data grammar of its      *)
(* mode; a string that does not is rejected with the error of its mode, and *)
(* nothing is cached for it.                                                *)
C10_ValidatedData ==
    ParseReturned =>
        IF last.ok
        THEN C10_Grammar(heap[last.inst])
        ELSE /\ <<last.cls, last.spec>> \notin DOMAIN cache
             /\ last.validated => C10_Rejection(last.spec, last.err)

====
